---- MODULE Spec2Model ----
(***************************************************************************)
(* Apollo address labeling: the labeler classes (src/src/labelers), the    *)
(* LabelingPipeline (src/src/labeling_pipeline.py) and the reports that    *)
(* read its retained labels (src/main.py, src/example_usage.py).           *)
(*                                                                         *)
(* Numbers: Python floats are modelled as exact rationals <<n, d>> in      *)
(* lowest terms with d > 0; whole-valued quantities (balances, counts,     *)
(* days) are integers.  Dates are day numbers.                             *)
(***************************************************************************)
EXTENDS Integers, Sequences, FiniteSets, Bags, TLC

VARIABLES
    settings,     \* config.settings: the process-wide Settings object
    now,          \* datetime.now() of the host, as a day number
    labeler,      \* a labeler object: an instance of one of the four classes
    bq_client,    \* LabelingPipeline.bq_client: which object serves the fetches
    labels,       \* LabelingPipeline.labels: the retained set
    pc,           \* run_full_pipeline: the statement the call stands at
    all_labels,   \* run_full_pipeline: its local all_labels
    fetched,      \* per rule of the run so far: the fetch's outcome, the generator's list
    prior,        \* pipeline.labels at the start of the run under way, or else as
                  \* the last completed run left it
    op,           \* the call that completed last ("" while a run is under way)
    arg,          \* the input of that call
    ret,          \* what that call returned
    raised,       \* the exception that escaped that call ("" when none)
    log           \* the rule events (start, completion, failure) logged since
                  \* the last call began

vars == <<settings, now, labeler, bq_client,
          labels, pc, all_labels, fetched, prior, op, arg, ret, raised, log>>

----------------------------------------------------------------------------
(* Rationals *)

Abs(x) == IF x < 0 THEN -x ELSE x

RECURSIVE GCD(_, _)
GCD(a, b) == IF b = 0 THEN a ELSE GCD(b, a % b)

\* n/d in lowest terms, d > 0 (d # 0 is the caller's duty).
Rat(n, d) ==
    LET g == GCD(Abs(n), Abs(d))
        s == IF d < 0 THEN -1 ELSE 1
    IN  <<(s * n) \div g, (s * d) \div g>>

RInt(i) == <<i, 1>>
RLt(a, b) == a[1] * b[2] < b[1] * a[2]
RLe(a, b) == a[1] * b[2] <= b[1] * a[2]
RAdd(a, b) == Rat(a[1] * b[2] + b[1] * a[2], a[2] * b[2])
RSub(a, b) == Rat(a[1] * b[2] - b[1] * a[2], a[2] * b[2])
RHalf(a) == Rat(a[1], a[2] * 2)

\* Python's min(a, b) and max(a, b) on two numbers.
PyMin(a, b) == IF RLt(b, a) THEN b ELSE a
PyMax(a, b) == IF RLt(a, b) THEN b ELSE a

One == RInt(1)
Zero == RInt(0)

----------------------------------------------------------------------------
(* Outcomes of a Python expression or call: a value, or a raised exception *)

Ok(v) == [exc |-> "", val |-> v]
Raise(e) == [exc |-> e, val |-> <<>>]

\* An optional constructor argument: None, or a value.
None == [given |-> FALSE]
Some(v) == [given |-> TRUE, v |-> v]

\* for _, row in df.iterrows(): labels.append(...); built[i] is the outcome of
\* the loop body on the i-th row, and the first row whose processing raises
\* ends the loop with that exception.
IterRowsKeepingPrefix(built) ==
    LET bad == {i \in 1..Len(built) : built[i].exc # ""}
        first == IF bad = {} THEN Len(built) + 1
                 ELSE CHOOSE i \in bad : \A j \in bad : i <= j
    IN  Ok([i \in 1..(first - 1) |-> built[i].val])

IterRows(built) ==
    LET bad == {i \in 1..Len(built) : built[i].exc # ""}
    IN  IF bad = {}
        THEN Ok([i \in 1..Len(built) |-> built[i].val])
        ELSE Raise(built[CHOOSE i \in bad : \A j \in bad : i <= j].exc)

\* row[col] raises KeyError when the row has no such column.
HasColumns(row, cols) == cols \subseteq DOMAIN row

\* An f-string with one formatted number: its text and the number.
SourceRule(text, value) == [text |-> text, value |-> value]

AddressLabel(address, label, confidence, created_at, updated_at, source_rule) ==
    [address |-> address, label |-> label, confidence |-> confidence,
     created_at |-> created_at, updated_at |-> updated_at,
     source_rule |-> source_rule]

----------------------------------------------------------------------------
(* config.py *)

\* Settings.__init__: each value read from the environment, no validation of
\* the three numeric settings.
DefaultSettings ==
    [min_eth_balance_whale |-> 1000,
     nft_trader_threshold |-> Rat(7, 10),
     lookback_days_new_wallet |-> 30]

\* The environments the process is started in: none set (the defaults), valid
\* overrides, and overrides _validate_settings lets through unchecked.
SettingsChoices ==
    { DefaultSettings,
      [min_eth_balance_whale |-> 2,
       nft_trader_threshold |-> Rat(1, 2),
       lookback_days_new_wallet |-> 10],
      [min_eth_balance_whale |-> -1,
       nft_trader_threshold |-> Rat(3, 2),
       lookback_days_new_wallet |-> 0] }

----------------------------------------------------------------------------
(* src/labelers/base_labeler.py *)

\* The lines of log_generation_start, log_generation_complete and
\* log_generation_error, and the like lines of the pipeline's generators.
StartEvent == [event |-> "start"]
CompleteEvent(n) == [event |-> "complete", count |-> n]
ErrorEvent(e) == [event |-> "error", error |-> e]

\* BaseLabeler.run: gen is the outcome of self.generate_labels(); what is
\* returned, and what is logged on the way.
BaseLabeler_run_propagates(gen) ==
    [exc |-> gen.exc, val |-> gen.val,
     log |-> IF gen.exc # "" THEN <<StartEvent>>
             ELSE <<StartEvent, CompleteEvent(Len(gen.val))>>]

BaseLabeler_run_completing_always(gen) ==
    [exc |-> "", val |-> IF gen.exc # "" THEN <<>> ELSE gen.val,
     log |-> IF gen.exc # ""
             THEN <<StartEvent, ErrorEvent(gen.exc), CompleteEvent(0)>>
             ELSE <<StartEvent, CompleteEvent(Len(gen.val))>>]

BaseLabeler_run(gen) ==
    IF gen.exc # ""
    THEN [exc |-> "", val |-> <<>>, log |-> <<StartEvent, ErrorEvent(gen.exc)>>]
    ELSE [exc |-> "", val |-> gen.val,
          log |-> <<StartEvent, CompleteEvent(Len(gen.val))>>]

----------------------------------------------------------------------------
(* src/labelers/whale.py *)

\* WhaleLabeler.__init__: min_balance or settings.min_eth_balance_whale
WhaleLabeler_init(min_balance) ==
    [class |-> "WhaleLabeler", label_type |-> "whale",
     min_balance |-> IF min_balance.given /\ min_balance.v # 0
                     THEN min_balance.v
                     ELSE settings.min_eth_balance_whale]

\* The confidence expression of generate_labels.
WhaleLabeler_confidence(eth_balance, min_balance) ==
    IF min_balance * 10 = 0
    THEN Raise("ZeroDivisionError")
    ELSE Ok(PyMin(One, Rat(eth_balance, min_balance * 10)))

\* A loop body that reads the threshold from the settings, as the pipeline's
\* generator does, and not from the object.
WhaleLabeler_label_from_settings(self, row) ==
    IF ~HasColumns(row, {"address", "eth_balance", "created_at", "updated_at"})
    THEN Raise("KeyError")
    ELSE LET c == WhaleLabeler_confidence(row.eth_balance,
                                          settings.min_eth_balance_whale)
         IN  IF c.exc # "" THEN c
             ELSE Ok(AddressLabel(row.address, self.label_type, c.val,
                                  row.created_at, row.updated_at,
                                  SourceRule("eth_balance >= {}",
                                             RInt(settings.min_eth_balance_whale))))

\* The loop body of generate_labels on one row.
WhaleLabeler_label(self, row) ==
    IF ~HasColumns(row, {"address", "eth_balance", "created_at", "updated_at"})
    THEN Raise("KeyError")
    ELSE LET c == WhaleLabeler_confidence(row.eth_balance, self.min_balance)
         IN  IF c.exc # "" THEN c
             ELSE Ok(AddressLabel(row.address, self.label_type, c.val,
                                  row.created_at, row.updated_at,
                                  SourceRule("eth_balance >= {}", RInt(self.min_balance))))

\* WhaleLabeler.generate_labels: df is the outcome of _get_ethereum_balances().
WhaleLabeler_generate_labels(self, df) ==
    IF df.exc # "" THEN df
    ELSE IterRows([i \in 1..Len(df.val) |->
                       WhaleLabeler_label(self, df.val[i])])

\* WhaleLabeler.set_balance_threshold: any value is accepted.
WhaleLabeler_set_balance_threshold(self, threshold) ==
    Ok([self EXCEPT !.min_balance = threshold])

----------------------------------------------------------------------------
(* src/labelers/nft_trader.py *)

\* NFTTraderLabeler.__init__: threshold or settings.nft_trader_threshold
NFTTraderLabeler_init(threshold, min_activity) ==
    [class |-> "NFTTraderLabeler", label_type |-> "nft_trader",
     threshold |-> IF threshold.given /\ threshold.v # Zero
                   THEN threshold.v
                   ELSE settings.nft_trader_threshold,
     min_activity |-> min_activity]

\* The confidence expression of generate_labels.
NFTTraderLabeler_confidence(nft_ratio, total_interactions) ==
    LET activity_bonus == PyMin(Rat(2, 10), Rat(total_interactions, 100))
        confidence == PyMin(One, RAdd(nft_ratio, activity_bonus))
    IN  PyMax(Rat(4, 10), confidence)

NFTTraderLabeler_label(self, row) ==
    IF ~HasColumns(row, {"address", "nft_ratio", "total_interactions",
                         "created_at", "updated_at"})
    THEN Raise("KeyError")
    ELSE Ok(AddressLabel(row.address, self.label_type,
                         NFTTraderLabeler_confidence(row.nft_ratio,
                                                     row.total_interactions),
                         row.created_at, row.updated_at,
                         SourceRule("nft_ratio >= {}", self.threshold)))

\* NFTTraderLabeler.generate_labels: df is the outcome of _get_nft_traders().
NFTTraderLabeler_generate_labels(self, df) ==
    IF df.exc # "" THEN df
    ELSE IterRows([i \in 1..Len(df.val) |->
                       NFTTraderLabeler_label(self, df.val[i])])

\* NFTTraderLabeler.set_threshold
NFTTraderLabeler_set_threshold(self, threshold) ==
    IF ~(RLe(Zero, threshold) /\ RLe(threshold, One))
    THEN Raise("ValueError")
    ELSE Ok([self EXCEPT !.threshold = threshold])

----------------------------------------------------------------------------
(* src/labelers/dex_user.py *)

\* DEXUserLabeler.__init__
DEXUserLabeler_init(min_interactions) ==
    [class |-> "DEXUserLabeler", label_type |-> "dex_user",
     min_interactions |-> min_interactions]

\* The confidence expression of generate_labels.
DEXUserLabeler_confidence(unique_contracts, total_interactions) ==
    LET contract_score == PyMin(One, Rat(unique_contracts, 5))
        activity_score == PyMin(One, Rat(total_interactions, 50))
        confidence == RHalf(RAdd(contract_score, activity_score))
    IN  PyMax(Rat(25, 100), confidence)

DEXUserLabeler_label(self, row) ==
    IF ~HasColumns(row, {"address", "unique_dex_contracts",
                         "total_dex_interactions", "created_at", "updated_at"})
    THEN Raise("KeyError")
    ELSE Ok(AddressLabel(row.address, self.label_type,
                         DEXUserLabeler_confidence(row.unique_dex_contracts,
                                                   row.total_dex_interactions),
                         row.created_at, row.updated_at,
                         SourceRule("dex_interactions >= {}",
                                    RInt(self.min_interactions))))

\* DEXUserLabeler.generate_labels: df is the outcome of _get_dex_users().
DEXUserLabeler_generate_labels(self, df) ==
    IF df.exc # "" THEN df
    ELSE IterRows([i \in 1..Len(df.val) |->
                       DEXUserLabeler_label(self, df.val[i])])

----------------------------------------------------------------------------
(* src/labelers/new_wallet.py *)

\* NewWalletLabeler.__init__: lookback_days or settings.lookback_days_new_wallet
NewWalletLabeler_init(lookback_days) ==
    [class |-> "NewWalletLabeler", label_type |-> "new_wallet",
     lookback_days |-> IF lookback_days.given /\ lookback_days.v # 0
                       THEN lookback_days.v
                       ELSE settings.lookback_days_new_wallet]

\* (datetime.now() - first_transaction_date).days: whole days, floored.
DaysOldSwapped(today, first_transaction_date) == first_transaction_date - today

DaysOld(today, first_transaction_date) == today - first_transaction_date

\* The confidence expression of generate_labels.
NewWalletLabeler_confidence(days_old, lookback_days) ==
    IF lookback_days = 0
    THEN Raise("ZeroDivisionError")
    ELSE Ok(PyMax(Rat(1, 10), RSub(One, Rat(days_old, lookback_days))))

NewWalletLabeler_label(self, row) ==
    IF ~HasColumns(row, {"address", "first_transaction_date",
                         "created_at", "updated_at"})
    THEN Raise("KeyError")
    ELSE LET c == NewWalletLabeler_confidence(
                      DaysOld(now, row.first_transaction_date),
                      self.lookback_days)
         IN  IF c.exc # "" THEN c
             ELSE Ok(AddressLabel(row.address, self.label_type, c.val,
                                  row.created_at, row.updated_at,
                                  SourceRule("first_transaction_within_{}_days",
                                             RInt(self.lookback_days))))

\* NewWalletLabeler.generate_labels: df is the outcome of _get_new_wallets().
NewWalletLabeler_generate_labels(self, df) ==
    IF df.exc # "" THEN df
    ELSE IterRows([i \in 1..Len(df.val) |->
                       NewWalletLabeler_label(self, df.val[i])])

\* NewWalletLabeler.set_lookback_days
NewWalletLabeler_set_lookback_days(self, lookback_days) ==
    IF lookback_days <= 0
    THEN Raise("ValueError")
    ELSE Ok([self EXCEPT !.lookback_days = lookback_days])


----------------------------------------------------------------------------
(* src/labeling_pipeline.py: the four generators *)

\* self.bq_client.get_ethereum_balances(...) and the three other fetches:
\* BigQueryClient (src/bigquery_client.py) defines none of the four methods,
\* so the attribute lookup raises; a client that provides them (the test
\* double of src/test_pipeline.py) gives the data source's answer.
PipelineFetch(client, answer) ==
    IF client = "BigQueryClient" THEN Raise("AttributeError") ELSE answer

\* try: ... return labels / except Exception: return []
Generator_propagates(gen) ==
    [exc |-> gen.exc, val |-> gen.val,
     log |-> IF gen.exc # "" THEN <<StartEvent>>
             ELSE <<StartEvent, CompleteEvent(Len(gen.val))>>]

Generator_catch(gen) ==
    IF gen.exc # ""
    THEN [exc |-> "", val |-> <<>>, log |-> <<StartEvent, ErrorEvent(gen.exc)>>]
    ELSE [exc |-> "", val |-> gen.val,
          log |-> <<StartEvent, CompleteEvent(Len(gen.val))>>]

generate_whale_labels_confidence(eth_balance) ==
    IF settings.min_eth_balance_whale * 10 = 0
    THEN Raise("ZeroDivisionError")
    ELSE Ok(PyMin(One, Rat(eth_balance, settings.min_eth_balance_whale * 10)))

generate_whale_labels_label(row) ==
    IF ~HasColumns(row, {"address", "eth_balance", "created_at", "updated_at"})
    THEN Raise("KeyError")
    ELSE LET c == generate_whale_labels_confidence(row.eth_balance)
         IN  IF c.exc # "" THEN c
             ELSE Ok(AddressLabel(row.address, "whale", c.val,
                                  row.created_at, row.updated_at,
                                  SourceRule("eth_balance >= {}",
                                      RInt(settings.min_eth_balance_whale))))

\* LabelingPipeline.generate_whale_labels: df is the fetch's outcome.
generate_whale_labels(df) ==
    Generator_catch(IF df.exc # "" THEN df
                    ELSE IterRows([i \in 1..Len(df.val) |->
                       generate_whale_labels_label(df.val[i])]))

generate_nft_trader_labels_confidence(nft_ratio, total_interactions) ==
    LET base_confidence == nft_ratio
        activity_boost == PyMin(Rat(2, 10), Rat(total_interactions, 1000))
    IN  PyMin(One, RAdd(base_confidence, activity_boost))

generate_nft_trader_labels_label(row) ==
    IF ~HasColumns(row, {"address", "nft_ratio", "total_interactions",
                         "created_at", "updated_at"})
    THEN Raise("KeyError")
    ELSE Ok(AddressLabel(row.address, "nft_trader",
                         generate_nft_trader_labels_confidence(
                             row.nft_ratio, row.total_interactions),
                         row.created_at, row.updated_at,
                         SourceRule("nft_interaction_ratio >= {}",
                                    settings.nft_trader_threshold)))

\* LabelingPipeline.generate_nft_trader_labels
generate_nft_trader_labels(df) ==
    Generator_catch(IF df.exc # "" THEN df
                    ELSE IterRows([i \in 1..Len(df.val) |->
                       generate_nft_trader_labels_label(df.val[i])]))

generate_dex_user_labels_confidence(unique_dex_contracts, total_dex_interactions) ==
    LET unique_contracts_confidence ==
            PyMin(Rat(6, 10), Rat(unique_dex_contracts, 5))
        activity_confidence ==
            PyMin(Rat(4, 10), Rat(total_dex_interactions, 100))
    IN  PyMin(One, RAdd(unique_contracts_confidence, activity_confidence))

generate_dex_user_labels_label(row) ==
    IF ~HasColumns(row, {"address", "unique_dex_contracts",
                         "total_dex_interactions", "created_at", "updated_at"})
    THEN Raise("KeyError")
    ELSE Ok(AddressLabel(row.address, "dex_user",
                         generate_dex_user_labels_confidence(
                             row.unique_dex_contracts, row.total_dex_interactions),
                         row.created_at, row.updated_at,
                         SourceRule("interacted_with_known_dex_contracts", <<>>)))

\* LabelingPipeline.generate_dex_user_labels
generate_dex_user_labels(df) ==
    Generator_catch(IF df.exc # "" THEN df
                    ELSE IterRows([i \in 1..Len(df.val) |->
                       generate_dex_user_labels_label(df.val[i])]))

generate_new_wallet_labels_confidence(days_old) ==
    IF settings.lookback_days_new_wallet = 0
    THEN Raise("ZeroDivisionError")
    ELSE Ok(PyMax(Rat(1, 10),
                  RSub(One, Rat(days_old, settings.lookback_days_new_wallet))))

generate_new_wallet_labels_label(row) ==
    IF ~HasColumns(row, {"address", "first_transaction_time",
                         "created_at", "updated_at"})
    THEN Raise("KeyError")
    ELSE LET c == generate_new_wallet_labels_confidence(
                      DaysOld(now, row.first_transaction_time))
         IN  IF c.exc # "" THEN c
             ELSE Ok(AddressLabel(row.address, "new_wallet", c.val,
                                  row.created_at, row.updated_at,
                                  SourceRule("first_transaction_within_{}_days",
                                      RInt(settings.lookback_days_new_wallet))))

\* LabelingPipeline.generate_new_wallet_labels
generate_new_wallet_labels(df) ==
    Generator_catch(IF df.exc # "" THEN df
                    ELSE IterRows([i \in 1..Len(df.val) |->
                       generate_new_wallet_labels_label(df.val[i])]))


----------------------------------------------------------------------------
(* The data source: what execute_query and the pipeline's fetches answer *)

\* The longest multi-row answer drawn.
MaxRows == 2

Seqs(S, n) == UNION {[1..k -> S] : k \in 0..n}

\* Every answer: an outage, one row of singles, or up to MaxRows sample rows.
Answers(singles, samples) ==
    {Raise("QueryError")} \cup {Ok(<<r>>) : r \in singles}
                          \cup {Ok(rows) : rows \in Seqs(samples, MaxRows)}

\* A row the query did not fill: its rule-specific columns are missing.
MalformedRow ==
    [address |-> "0xee", created_at |-> now, updated_at |-> now]

IsMalformed(row) == DOMAIN row = DOMAIN MalformedRow

\* GROUP BY address: one row per address.
OnePerAddress(rows) ==
    \A i, j \in 1..Len(rows) : i # j => rows[i].address # rows[j].address

\* ORDER BY key DESC, over the rows that carry the key.
Descending(rows, key) ==
    \A i, j \in 1..Len(rows) :
        (i < j /\ ~IsMalformed(rows[i]) /\ ~IsMalformed(rows[j]))
            => rows[i][key] >= rows[j][key]

WhaleRow(address, eth_balance) ==
    [address |-> address, eth_balance |-> eth_balance,
     created_at |-> now, updated_at |-> now]

WhaleBalances == {-1, 0, 2, 5, 20, 21, 1000, 10000, 10001}

WhaleAnswers ==
    Answers({WhaleRow("0xab", b) : b \in WhaleBalances},
            {WhaleRow("0xab", 10000), WhaleRow("0xcd", 1000), MalformedRow})

\* WhaleLabeler._get_ethereum_balances: HAVING eth_balance >= min_balance,
\* GROUP BY address, ORDER BY eth_balance DESC.
WhaleLabeler_get_ethereum_balances(self) ==
    {a \in WhaleAnswers :
        a.exc = "" =>
            /\ \A i \in 1..Len(a.val) :
                  IsMalformed(a.val[i]) \/ a.val[i].eth_balance >= self.min_balance
            /\ OnePerAddress(a.val)
            /\ Descending(a.val, "eth_balance")}

NFTRow(address, nft_ratio, total_interactions) ==
    [address |-> address, nft_ratio |-> nft_ratio,
     total_interactions |-> total_interactions,
     created_at |-> now, updated_at |-> now]

NFTRatios == {Zero, Rat(3, 10), Rat(1, 2), Rat(7, 10), Rat(8, 10), One}
NFTTotals == {1, 10, 20, 100, 200}

NFTAnswers ==
    Answers({NFTRow("0xab", r, t) : r \in NFTRatios, t \in NFTTotals},
            {NFTRow("0xab", Rat(8, 10), 100), NFTRow("0xcd", Rat(7, 10), 10),
             MalformedRow})

\* ORDER BY key DESC, for a fractional key.
DescendingRat(rows, key) ==
    \A i, j \in 1..Len(rows) :
        (i < j /\ ~IsMalformed(rows[i]) /\ ~IsMalformed(rows[j]))
            => RLe(rows[j][key], rows[i][key])

\* NFTTraderLabeler._get_nft_traders: HAVING total_interactions >= min_activity,
\* WHERE ratio >= threshold, GROUP BY from_address, ORDER BY nft_ratio DESC.
NFTTraderLabeler_get_nft_traders(self) ==
    {a \in NFTAnswers :
        a.exc = "" =>
            /\ \A i \in 1..Len(a.val) :
                  \/ IsMalformed(a.val[i])
                  \/ /\ a.val[i].total_interactions >= self.min_activity
                     /\ RLe(self.threshold, a.val[i].nft_ratio)
            /\ OnePerAddress(a.val)
            /\ DescendingRat(a.val, "nft_ratio")}

DEXRow(address, unique_dex_contracts, total_dex_interactions) ==
    [address |-> address, unique_dex_contracts |-> unique_dex_contracts,
     total_dex_interactions |-> total_dex_interactions,
     created_at |-> now, updated_at |-> now]

DEXCounts ==
    {<<u, t>> \in {1, 3, 5} \X {1, 5, 25, 50, 100} : u <= t}

DEXAnswers ==
    Answers({DEXRow("0xab", c[1], c[2]) : c \in DEXCounts},
            {DEXRow("0xab", 5, 50), DEXRow("0xcd", 1, 5), MalformedRow})

\* DEXUserLabeler._get_dex_users: HAVING total_dex_interactions >=
\* min_interactions, GROUP BY from_address, ORDER BY total_dex_interactions DESC.
DEXUserLabeler_get_dex_users(self) ==
    {a \in DEXAnswers :
        a.exc = "" =>
            /\ \A i \in 1..Len(a.val) :
                  \/ IsMalformed(a.val[i])
                  \/ a.val[i].total_dex_interactions >= self.min_interactions
            /\ OnePerAddress(a.val)
            /\ Descending(a.val, "total_dex_interactions")}

\* Days before (or after) the host's today of a first transaction.
FirstTransactionAges == {-1, 0, 3, 10, 30, 31}

NewWalletRow(address, first_transaction_date) ==
    [address |-> address, first_transaction_date |-> first_transaction_date,
     created_at |-> now, updated_at |-> now]

NewWalletAnswers ==
    Answers({NewWalletRow("0xab", now - d) : d \in FirstTransactionAges},
            {NewWalletRow("0xab", now), NewWalletRow("0xcd", now - 3),
             MalformedRow})

\* CURRENT_DATE() of the data source is a UTC date; datetime.now() is the
\* host's local time, which is up to a day behind it.
DataSourceToday == {now, now + 1}

\* NewWalletLabeler._get_new_wallets: first_transaction_date >=
\* DATE_SUB(CURRENT_DATE(), INTERVAL lookback_days DAY), GROUP BY address,
\* ORDER BY first_transaction_date DESC.
NewWalletLabeler_get_new_wallets(self) ==
    {a \in NewWalletAnswers :
        a.exc = "" =>
            /\ \E today \in DataSourceToday :
                 \A i \in 1..Len(a.val) :
                    \/ IsMalformed(a.val[i])
                    \/ /\ a.val[i].first_transaction_date >= today - self.lookback_days
                       /\ a.val[i].first_transaction_date <= today
            /\ OnePerAddress(a.val)
            /\ Descending(a.val, "first_transaction_date")}

\* The pipeline's new-wallet fetch names the column first_transaction_time.
PipelineNewWalletRow(row) ==
    IF IsMalformed(row) THEN row
    ELSE [address |-> row.address,
          first_transaction_time |-> row.first_transaction_date,
          created_at |-> row.created_at, updated_at |-> row.updated_at]

PipelineNewWalletAnswers ==
    {IF a.exc # "" THEN a
     ELSE Ok([i \in 1..Len(a.val) |-> PipelineNewWalletRow(a.val[i])]) :
        a \in NewWalletAnswers}


\* self.generate_labels(): the method of the object's class.
GenerateLabels(self, df) ==
    CASE self.class = "WhaleLabeler" -> WhaleLabeler_generate_labels(self, df)
      [] self.class = "NFTTraderLabeler" -> NFTTraderLabeler_generate_labels(self, df)
      [] self.class = "DEXUserLabeler" -> DEXUserLabeler_generate_labels(self, df)
      [] self.class = "NewWalletLabeler" -> NewWalletLabeler_generate_labels(self, df)

----------------------------------------------------------------------------
(* The rules on their own: the four labeler objects, their setters and run(),
   and the pipeline's four generators called one at a time *)

WhaleArgs == {None, Some(0), Some(2), Some(-1)}
WhaleThresholds == {-1, 0, 2, 1000}
NFTArgs == {None, Some(Zero), Some(Rat(1, 2)), Some(Rat(3, 2))}
NFTThresholds == {Rat(-1, 10), Zero, Rat(1, 2), One, Rat(3, 2)}
DEXArgs == {5, 1}
NewWalletArgs == {None, Some(0), Some(10), Some(-5)}
LookbackDays == {-5, 0, 10, 30}

\* The objects the four constructors build.
Constructed ==
    {WhaleLabeler_init(a) : a \in WhaleArgs}
        \cup {NFTTraderLabeler_init(a, 10) : a \in NFTArgs}
        \cup {DEXUserLabeler_init(a) : a \in DEXArgs}
        \cup {NewWalletLabeler_init(a) : a \in NewWalletArgs}

pipelineIdle ==
    /\ labels = <<>>
    /\ pc = "idle"
    /\ all_labels = <<>>
    /\ fetched = <<>>
    /\ prior = <<>>
    /\ log = <<>>

\* pipeline.labels when a rule is called on its own: empty as constructed, or
\* what an earlier full run stored (only a client that answers leaves records;
\* the run taken is one under the default settings).
RetainedBefore ==
    IF bq_client = "Mock" /\ settings = DefaultSettings
    THEN {<<>>, generate_whale_labels(Ok(<<WhaleRow("0xab", 10000)>>)).val}
    ELSE {<<>>}

\* pipeline.labels after a generator or a labeler's run() returned out: neither
\* assigns self.labels.
RetainedAfterCallStored(retained, out) == out

RetainedAfterCall(retained, out) == retained

InitRules ==
    /\ settings \in SettingsChoices
    /\ now = 0
    /\ labeler \in Constructed
    /\ bq_client \in {"BigQueryClient", "Mock"}
    /\ labels \in RetainedBefore
    /\ pc = "idle"
    /\ all_labels = <<>>
    /\ fetched = <<>>
    /\ prior = labels
    /\ log = <<>>
    /\ op = "init" /\ arg = <<>> /\ ret = <<>> /\ raised = ""

\* A call that returns to its caller: r is its outcome.
Returns(name, input, r) ==
    /\ op' = name
    /\ arg' = input
    /\ ret' = r.val
    /\ raised' = r.exc

\* A rule called on its own, as labeler.run() or as one generator of the
\* pipeline: r is its outcome.
Called(name, input, r) ==
    /\ Returns(name, input, r)
    /\ labels' = RetainedAfterCall(labels, r.val)
    /\ log' = r.log

\* labeler.run(), by the class of the object.
WhaleLabelerRun ==
    /\ labeler.class = "WhaleLabeler"
    /\ \E df \in WhaleLabeler_get_ethereum_balances(labeler) :
          Called("WhaleLabeler.run", df,
                 BaseLabeler_run(WhaleLabeler_generate_labels(labeler, df)))
    /\ UNCHANGED <<settings, now, labeler, bq_client, pc, all_labels, fetched,
                   prior>>

NFTTraderLabelerRun ==
    /\ labeler.class = "NFTTraderLabeler"
    /\ \E df \in NFTTraderLabeler_get_nft_traders(labeler) :
          Called("NFTTraderLabeler.run", df,
                 BaseLabeler_run(NFTTraderLabeler_generate_labels(labeler, df)))
    /\ UNCHANGED <<settings, now, labeler, bq_client, pc, all_labels, fetched,
                   prior>>

DEXUserLabelerRun ==
    /\ labeler.class = "DEXUserLabeler"
    /\ \E df \in DEXUserLabeler_get_dex_users(labeler) :
          Called("DEXUserLabeler.run", df,
                 BaseLabeler_run(DEXUserLabeler_generate_labels(labeler, df)))
    /\ UNCHANGED <<settings, now, labeler, bq_client, pc, all_labels, fetched,
                   prior>>

NewWalletLabelerRun ==
    /\ labeler.class = "NewWalletLabeler"
    /\ \E df \in NewWalletLabeler_get_new_wallets(labeler) :
          Called("NewWalletLabeler.run", df,
                 BaseLabeler_run(NewWalletLabeler_generate_labels(labeler, df)))
    /\ UNCHANGED <<settings, now, labeler, bq_client, pc, all_labels, fetched,
                   prior>>

SetBalanceThreshold ==
    /\ labeler.class = "WhaleLabeler"
    /\ \E t \in WhaleThresholds :
          LET r == WhaleLabeler_set_balance_threshold(labeler, t)
          IN  /\ labeler' = r.val
              /\ Returns("WhaleLabeler.set_balance_threshold", t, Ok(<<>>))
    /\ UNCHANGED <<settings, now, bq_client, labels, pc, all_labels,
                   fetched, prior>>
    /\ log' = <<>>

SetThreshold ==
    /\ labeler.class = "NFTTraderLabeler"
    /\ \E t \in NFTThresholds :
          LET r == NFTTraderLabeler_set_threshold(labeler, t)
          IN  /\ labeler' = IF r.exc = "" THEN r.val ELSE labeler
              /\ Returns("NFTTraderLabeler.set_threshold", t,
                         [r EXCEPT !.val = <<>>])
    /\ UNCHANGED <<settings, now, bq_client, labels, pc, all_labels,
                   fetched, prior>>
    /\ log' = <<>>

SetLookbackDays ==
    /\ labeler.class = "NewWalletLabeler"
    /\ \E d \in LookbackDays :
          LET r == NewWalletLabeler_set_lookback_days(labeler, d)
          IN  /\ labeler' = IF r.exc = "" THEN r.val ELSE labeler
              /\ Returns("NewWalletLabeler.set_lookback_days", d,
                         [r EXCEPT !.val = <<>>])
    /\ UNCHANGED <<settings, now, bq_client, labels, pc, all_labels,
                   fetched, prior>>
    /\ log' = <<>>

\* A labeler constructed anew, in place of the one held: WhaleLabeler(bq_client,
\* min_balance), NFTTraderLabeler(bq_client, threshold),
\* DEXUserLabeler(bq_client, min_interactions), NewWalletLabeler(bq_client,
\* lookback_days).
Construct ==
    /\ \/ \E a \in WhaleArgs :
             /\ labeler' = WhaleLabeler_init(a)
             /\ Returns("WhaleLabeler", a, Ok(<<>>))
       \/ \E a \in NFTArgs :
             /\ labeler' = NFTTraderLabeler_init(a, 10)
             /\ Returns("NFTTraderLabeler", a, Ok(<<>>))
       \/ \E a \in DEXArgs :
             /\ labeler' = DEXUserLabeler_init(a)
             /\ Returns("DEXUserLabeler", a, Ok(<<>>))
       \/ \E a \in NewWalletArgs :
             /\ labeler' = NewWalletLabeler_init(a)
             /\ Returns("NewWalletLabeler", a, Ok(<<>>))
    /\ UNCHANGED <<settings, now, bq_client, labels, pc, all_labels, fetched,
                   prior>>
    /\ log' = <<>>

\* A generator called on its own (src/example_usage.py, src/test_pipeline.py):
\* pipeline.labels is not written.
CallGenerateWhale ==
    /\ pc = "idle"
    /\ \E a \in WhaleAnswers :
          LET df == PipelineFetch(bq_client, a)
          IN  Called("generate_whale_labels", df, generate_whale_labels(df))
    /\ UNCHANGED <<settings, now, labeler, bq_client, pc, all_labels, fetched,
                   prior>>

CallGenerateNFTTrader ==
    /\ pc = "idle"
    /\ \E a \in NFTAnswers :
          LET df == PipelineFetch(bq_client, a)
          IN  Called("generate_nft_trader_labels", df,
                     generate_nft_trader_labels(df))
    /\ UNCHANGED <<settings, now, labeler, bq_client, pc, all_labels, fetched,
                   prior>>

CallGenerateDEXUser ==
    /\ pc = "idle"
    /\ \E a \in DEXAnswers :
          LET df == PipelineFetch(bq_client, a)
          IN  Called("generate_dex_user_labels", df, generate_dex_user_labels(df))
    /\ UNCHANGED <<settings, now, labeler, bq_client, pc, all_labels, fetched,
                   prior>>

CallGenerateNewWallet ==
    /\ pc = "idle"
    /\ \E a \in PipelineNewWalletAnswers :
          LET df == PipelineFetch(bq_client, a)
          IN  Called("generate_new_wallet_labels", df,
                     generate_new_wallet_labels(df))
    /\ UNCHANGED <<settings, now, labeler, bq_client, pc, all_labels, fetched,
                   prior>>

NextRules ==
    \/ WhaleLabelerRun
    \/ NFTTraderLabelerRun
    \/ DEXUserLabelerRun
    \/ NewWalletLabelerRun
    \/ SetBalanceThreshold
    \/ SetThreshold
    \/ SetLookbackDays
    \/ Construct
    \/ CallGenerateWhale
    \/ CallGenerateNFTTrader
    \/ CallGenerateDEXUser
    \/ CallGenerateNewWallet

SpecRules == InitRules /\ [][NextRules]_vars


----------------------------------------------------------------------------
(* The pipeline: run_full_pipeline, statement by statement *)

\* The last day the host's clock reaches.
MaxClock == 1

\* The longest answer the data source gives to a fetch of a full run.
MaxRunRows == 1

\* An outage, up to MaxRunRows copies of a well-formed row, or MaxRunRows rows
\* of which the last is malformed.
RunAnswers(good) ==
    {Raise("QueryError")}
        \cup {Ok([i \in 1..k |-> good]) : k \in 0..MaxRunRows}
        \cup {Ok([i \in 1..MaxRunRows |->
                     IF i = MaxRunRows THEN MalformedRow ELSE good])}

Rules == <<"whale", "nft_trader", "dex_user", "new_wallet">>

\* The environments a pipeline process is started in: the defaults, and values
\* Settings accepts unchecked (a zero window makes the new-wallet rule divide
\* by zero on its first row).
PipelineSettings ==
    {DefaultSettings,
     [min_eth_balance_whale |-> -1,
      nft_trader_threshold |-> Rat(3, 2),
      lookback_days_new_wallet |-> 0]}

\* The answers of the data source to the four fetches of a run.
RunAnswersOf(rule) ==
    CASE rule = "whale" -> RunAnswers(WhaleRow("0xab", 10000))
      [] rule = "nft_trader" -> RunAnswers(NFTRow("0xab", Rat(8, 10), 100))
      [] rule = "dex_user" -> RunAnswers(DEXRow("0xcd", 5, 50))
      [] rule = "new_wallet" ->
            RunAnswers(PipelineNewWalletRow(NewWalletRow("0xcd", 0)))

\* self.generate_<rule>_labels()
Generate(rule, df) ==
    CASE rule = "whale" -> generate_whale_labels(df)
      [] rule = "nft_trader" -> generate_nft_trader_labels(df)
      [] rule = "dex_user" -> generate_dex_user_labels(df)
      [] rule = "new_wallet" -> generate_new_wallet_labels(df)

Init ==
    /\ settings \in PipelineSettings
    /\ now = 0
    /\ labeler = <<>>
    /\ bq_client \in {"BigQueryClient", "Mock"}
    /\ pipelineIdle
    /\ op = "init" /\ arg = <<>> /\ ret = <<>> /\ raised = ""

\* logger.info("Starting full labeling pipeline..."); all_labels = []
StartRun ==
    /\ pc = "idle"
    /\ pc' = Rules[1]
    /\ all_labels' = <<>>
    /\ fetched' = <<>>
    /\ prior' = labels
    /\ op' = "" /\ arg' = <<>> /\ ret' = <<>> /\ raised' = ""
    /\ UNCHANGED <<settings, now, labeler, bq_client, labels>>
    /\ log' = <<>>

\* all_labels.extend(out): what the statement writes.
ExtendWritesThrough(retained, acc, out) ==
    [labels |-> retained \o out, all_labels |-> acc \o out]

ExtendUnlabelled(retained, acc, out) ==
    [labels |-> retained,
     all_labels |->
         acc \o SelectSeq(out, LAMBDA l :
                     \A i \in 1..Len(acc) : acc[i].address # l.address)]

Extend(retained, acc, out) ==
    [labels |-> retained, all_labels |-> acc \o out]

\* self.labels = all_labels
StoreAppends(retained, acc) == retained \o acc

StoreLabels(retained, acc) == acc

\* The statement after the k-th generator call.
After(k) == IF k = Len(Rules) THEN "store" ELSE Rules[k + 1]

\* all_labels.extend(self.generate_<rule>_labels()), for the k-th rule.  An
\* exception the generator lets through ends run_full_pipeline there.
RunStep(k) ==
    /\ pc = Rules[k]
    /\ \E a \in RunAnswersOf(Rules[k]) :
          LET df == PipelineFetch(bq_client, a)
              r == Generate(Rules[k], df)
              w == Extend(labels, all_labels, r.val)
          IN  IF r.exc = ""
              THEN /\ pc' = After(k)
                   /\ labels' = w.labels
                   /\ all_labels' = w.all_labels
                   /\ fetched' = Append(fetched, [df |-> df, out |-> r.val])
                   /\ log' = log \o r.log
                   /\ UNCHANGED <<op, arg, ret, raised>>
              ELSE /\ pc' = "idle"
                   /\ Returns("run_full_pipeline", Append(fetched, [df |-> df, out |-> <<>>]), r)
                   /\ log' = log \o r.log
                   /\ UNCHANGED <<labels, all_labels, fetched>>
    /\ UNCHANGED <<settings, now, labeler, bq_client, prior>>

StepWhale == RunStep(1)
StepNFTTrader == RunStep(2)
StepDEXUser == RunStep(3)
StepNewWallet == RunStep(4)

\* self.labels = all_labels; logger.info(...); return all_labels
Store ==
    /\ pc = "store"
    /\ pc' = "idle"
    /\ labels' = StoreLabels(labels, all_labels)
    /\ Returns("run_full_pipeline", fetched, Ok(all_labels))
    /\ UNCHANGED <<settings, now, labeler, bq_client, all_labels, fetched,
                   prior>>
    /\ UNCHANGED log

\* An exception that is no Exception (KeyboardInterrupt, SystemExit) is raised
\* inside the generator call the run has reached: except Exception does not
\* take it, and run_full_pipeline ends with it.
Interrupt ==
    /\ pc \in {Rules[k] : k \in 1..Len(Rules)}
    /\ pc' = "idle"
    /\ Returns("run_full_pipeline", fetched, Raise("KeyboardInterrupt"))
    /\ UNCHANGED <<settings, now, labeler, bq_client, labels, all_labels,
                   fetched, prior>>
    /\ log' = Append(log, StartEvent)

\* The host's clock moves on a day; a run is short against a day, so the date
\* changes between runs.
Tick ==
    /\ pc = "idle"
    /\ now < MaxClock
    /\ now' = now + 1
    /\ UNCHANGED <<settings, labeler, bq_client, labels, pc, all_labels,
                   fetched, prior, op, arg, ret, raised>>
    /\ UNCHANGED log

----------------------------------------------------------------------------
(* The full run as one call, and a second run against the same rows *)

\* run_full_pipeline from entry to return, uninterrupted: dfs[k] is the
\* outcome of the k-th fetch; each call is recorded with its output.
run_full_pipeline(dfs) ==
    [k \in 1..Len(Rules) |->
        [df |-> dfs[k], out |-> Generate(Rules[k], dfs[k]).val,
         log |-> Generate(Rules[k], dfs[k]).log]]

\* The outcomes of the four fetches of a run.
RunFetches ==
    {[k \in 1..Len(Rules) |-> PipelineFetch(bq_client, <<w, n, d, m>>[k])] :
        w \in RunAnswersOf("whale"), n \in RunAnswersOf("nft_trader"),
        d \in RunAnswersOf("dex_user"), m \in RunAnswersOf("new_wallet")}

RECURSIVE Outputs(_)
\* all_labels after the calls: their outputs, concatenated in call order.
Outputs(calls) ==
    IF calls = <<>> THEN <<>>
    ELSE Outputs(SubSeq(calls, 1, Len(calls) - 1)) \o calls[Len(calls)].out

RECURSIVE Events(_)
\* What the calls logged, in call order.
Events(calls) ==
    IF calls = <<>> THEN <<>>
    ELSE Events(SubSeq(calls, 1, Len(calls) - 1)) \o calls[Len(calls)].log

InitRerun ==
    /\ settings \in PipelineSettings
    /\ now = 0
    /\ labeler = <<>>
    /\ bq_client \in {"BigQueryClient", "Mock"}
    /\ pipelineIdle
    /\ op = "init" /\ arg = <<>> /\ ret = <<>> /\ raised = ""

\* pipeline.run_full_pipeline(), the first of the process.
FullRun ==
    /\ op = "init"
    /\ \E dfs \in RunFetches :
          LET calls == run_full_pipeline(dfs)
          IN  /\ fetched' = calls
              /\ all_labels' = Outputs(calls)
              /\ labels' = StoreLabels(labels, Outputs(calls))
              /\ Returns("run_full_pipeline", calls, Ok(Outputs(calls)))
              /\ log' = Events(calls)
    /\ prior' = labels
    /\ UNCHANGED <<settings, now, labeler, bq_client, pc>>

\* pipeline.run_full_pipeline() once more, the data source answering every
\* fetch with the rows it answered the first time.
FullRunAgain ==
    /\ op = "run_full_pipeline"
    /\ LET calls == run_full_pipeline([k \in 1..Len(fetched) |-> fetched[k].df])
       IN  /\ all_labels' = Outputs(calls)
           /\ labels' = StoreLabels(labels, Outputs(calls))
           /\ Returns("run_full_pipeline again", calls, Ok(Outputs(calls)))
           /\ log' = Events(calls)
    /\ prior' = labels
    /\ UNCHANGED <<settings, now, labeler, bq_client, pc, fetched>>

\* The clock moves on before and between the two runs.
TickBeforeRun == op # "run_full_pipeline again" /\ Tick

NextRerun ==
    \/ FullRun
    \/ FullRunAgain
    \/ TickBeforeRun

SpecRerun == InitRerun /\ [][NextRerun]_vars

----------------------------------------------------------------------------
(* The four generator calls of a run, taken in any order *)

RECURSIVE ExtendAll(_, _)
\* all_labels after all_labels.extend(out) for each of outs in turn.
ExtendAll(retained, outs) ==
    IF outs = <<>> THEN <<>>
    ELSE Extend(retained, ExtendAll(retained, SubSeq(outs, 1, Len(outs) - 1)),
                outs[Len(outs)]).all_labels

\* The statements of lines 163-166 in the order `order` (a permutation of
\* 1..4), each generator answered as in run_full_pipeline(dfs).
run_in_order(order, dfs) ==
    [i \in 1..Len(Rules) |->
        [rule |-> Rules[order[i]],
         df |-> dfs[order[i]],
         out |-> Generate(Rules[order[i]], dfs[order[i]]).val,
         log |-> Generate(Rules[order[i]], dfs[order[i]]).log]]

InitOrder ==
    /\ settings \in PipelineSettings
    /\ now = 0
    /\ labeler = <<>>
    /\ bq_client \in {"BigQueryClient", "Mock"}
    /\ pipelineIdle
    /\ op = "init" /\ arg = <<>> /\ ret = <<>> /\ raised = ""

\* A full run whose four generator calls are made in some order; fetched keeps
\* what the calls give in the order of the source.
RunInAnyOrder ==
    /\ op = "init"
    /\ \E dfs \in RunFetches : \E order \in Permutations(1..Len(Rules)) :
          LET calls == run_in_order(order, dfs)
              merged == ExtendAll(labels, [i \in 1..Len(calls) |-> calls[i].out])
          IN  /\ fetched' = run_full_pipeline(dfs)
              /\ all_labels' = merged
              /\ labels' = StoreLabels(labels, merged)
              /\ Returns("run_full_pipeline in order", calls, Ok(merged))
              /\ log' = Events(calls)
    /\ prior' = labels
    /\ UNCHANGED <<settings, now, labeler, bq_client, pc>>

NextOrder ==
    \/ RunInAnyOrder
    \/ TickBeforeRun

SpecOrder == InitOrder /\ [][NextOrder]_vars

----------------------------------------------------------------------------
(* main.py and example_usage.py: what is reported about the retained set *)

\* The most rows the data source returned to the full run that is reported on.
MaxReportRows == 3

\* Addresses of the rows: two that differ only in letter case, and a third.
AddressesReported == {"0xab", "0xAB", "0xcd"}

\* str.lower(), on the strings that occur as addresses and category names.
Lower(s) ==
    CASE s = "0xAB" -> "0xab"
      [] s = "0xCD" -> "0xcd"
      [] s = "0xEE" -> "0xee"
      [] s = "Whale" -> "whale"
      [] s = "WHALE" -> "whale"
      [] OTHER -> s

ReportRow(rule, address) ==
    CASE rule = "whale" -> WhaleRow(address, 10000)
      [] rule = "nft_trader" -> NFTRow(address, Rat(8, 10), 100)
      [] rule = "dex_user" -> DEXRow(address, 1, 1)
      [] rule = "new_wallet" -> PipelineNewWalletRow(NewWalletRow(address, 0))

\* What the data source returned to a full run: up to MaxReportRows rows, each
\* the answer to the fetch of one rule (its index in Rules) and carrying an
\* address, the fetches in the order the run makes them.
ReportFetches ==
    {f \in Seqs((1..Len(Rules)) \X AddressesReported, MaxReportRows) :
        \A i, j \in 1..Len(f) : i < j => f[i][1] <= f[j][1]}

\* The output of the k-th generator of that run.
ReportOutput(k, f) ==
    LET mine == SelectSeq(f, LAMBDA r : r[1] = k)
    IN  Generate(Rules[k],
                 Ok([i \in 1..Len(mine) |-> ReportRow(Rules[k], mine[i][2])])).val

\* The retained sets reported on: the results of those full runs.
RetainedSets ==
    {ReportOutput(1, f) \o ReportOutput(2, f) \o ReportOutput(3, f)
         \o ReportOutput(4, f) : f \in ReportFetches}

\* One column of a table, one field of each record of a list.
Column(seq, field) == [i \in 1..Len(seq) |-> seq[i][field]]

\* set(xs)
Values(xs) == {xs[i] : i \in 1..Len(xs)}

\* example_multi_label_addresses, from `if all_labels:`: address_labels maps
\* each address to the labels of its records, in record order;
\* multi_label_addresses keeps the addresses whose labels, as a set, are more
\* than one; the listing prints the count and those addresses with their
\* distinct labels.
address_labels(records) ==
    [a \in Values(Column(records, "address")) |->
        Column(SelectSeq(records, LAMBDA l : l.address = a), "label")]

example_multi_label_addresses(records) ==
    IF records = <<>>
    THEN [printed |-> "No labels generated", found |-> 0, listing |-> {}]
    ELSE LET grouped == address_labels(records)
             multi_label_addresses ==
                 {a \in DOMAIN grouped : Cardinality(Values(grouped[a])) > 1}
         IN  [printed |-> "Found {} addresses with multiple labels",
              found |-> Cardinality(multi_label_addresses),
              listing |-> {[address |-> a, unique_labels |-> Values(grouped[a])] :
                              a \in multi_label_addresses}]

\* The keys of the dict built for each record (lines 190-197), in order.
ExportColumns ==
    <<"address", "label", "confidence", "created_at", "updated_at", "source_rule">>

\* LabelingPipeline.export_to_dataframe: pd.DataFrame() when there are no
\* labels, else pd.DataFrame(data), one row per record under the keys of data.
export_to_dataframe(retained) ==
    IF retained = <<>>
    THEN [columns |-> <<>>, rows |-> <<>>]
    ELSE [columns |-> ExportColumns,
          rows |-> [i \in 1..Len(retained) |->
                      [c \in Values(ExportColumns) |-> retained[i][c]]]]

\* LabelingPipeline.get_labels_by_type
get_labels_by_type_ignoring_case(retained, label_type) ==
    SelectSeq(retained, LAMBDA label : Lower(label.label) = Lower(label_type))

get_labels_by_type(retained, label_type) ==
    SelectSeq(retained, LAMBDA label : label.label = label_type)

\* LabelingPipeline.get_labels_by_address
get_labels_by_address_exact(retained, address) ==
    SelectSeq(retained, LAMBDA label : label.address = address)

get_labels_by_address(retained, address) ==
    SelectSeq(retained, LAMBDA label : Lower(label.address) = Lower(address))

\* Series.value_counts(): how many rows carry each value.
value_counts(xs) ==
    [v \in Values(xs) |-> Cardinality({i \in 1..Len(xs) : xs[i] = v})]

RECURSIVE RSum(_)
RSum(xs) ==
    IF xs = <<>> THEN Zero
    ELSE RAdd(RSum(SubSeq(xs, 1, Len(xs) - 1)), xs[Len(xs)])

\* The k-th smallest of xs (k from 1), ties in position order.
Ranked(xs, k) ==
    LET Before(i, j) == RLt(xs[i], xs[j]) \/ (xs[i] = xs[j] /\ i < j)
        at == CHOOSE i \in 1..Len(xs) :
                  Cardinality({j \in 1..Len(xs) : Before(j, i)}) = k - 1
    IN  xs[at]

Mean(xs) == LET t == RSum(xs) IN Rat(t[1], t[2] * Len(xs))

Median(xs) ==
    IF Len(xs) % 2 = 1 THEN Ranked(xs, (Len(xs) + 1) \div 2)
    ELSE RHalf(RAdd(Ranked(xs, Len(xs) \div 2), Ranked(xs, Len(xs) \div 2 + 1)))

\* f"{x:.3f}": x to the nearest thousandth, as a count of thousandths.
Format3f(x) == (2000 * x[1] + x[2]) \div (2 * x[2])

\* generate_summary_report from line 37 on: what it logs about labels_df;
\* labels_df['address'] raises KeyError on a table without that column.
summary_statistics(labels_df) ==
    IF ~ ({"address", "label", "confidence"} \subseteq Values(labels_df.columns))
    THEN Raise("KeyError")
    ELSE LET rows == labels_df.rows
             address == Column(rows, "address")
             confidence == Column(rows, "confidence")
             address_label_counts == value_counts(address)
             multi_label_addresses ==
                 {a \in DOMAIN address_label_counts : address_label_counts[a] > 1}
         IN  Ok([logged |-> "=== APOLLO LABELING PIPELINE SUMMARY ===",
                 total |-> Len(rows),
                 unique_addresses |-> Cardinality(Values(address)),
                 label_counts |-> value_counts(Column(rows, "label")),
                 mean_confidence |-> Format3f(Mean(confidence)),
                 median_confidence |-> Format3f(Median(confidence)),
                 min_confidence |-> Format3f(Ranked(confidence, 1)),
                 max_confidence |-> Format3f(Ranked(confidence, Len(confidence))),
                 high_confidence |->
                     Len(SelectSeq(rows, LAMBDA r : RLe(Rat(8, 10), r.confidence))),
                 multi_label_count |-> Cardinality(multi_label_addresses),
                 multi_label_listing |->
                     {[address |-> a,
                       labels |-> Column(SelectSeq(rows, LAMBDA r : r.address = a), "label")] :
                         a \in multi_label_addresses}])

\* generate_summary_report: the warning and return on an empty table (lines
\* 33-35), else the statistics.
generate_summary_report_unguarded(labels_df) ==
    summary_statistics(labels_df)

generate_summary_report(labels_df) ==
    IF labels_df.rows = <<>>
    THEN Ok([logged |-> "No labels generated"])
    ELSE summary_statistics(labels_df)

\* The arguments the filters are called with.
LabelTypes == {"whale", "nft_trader", "dex_user", "new_wallet", "Whale", "exchange"}

AddressesAsked == {"0xab", "0xAB", "0xcd", "0xCD", "0xEE"}

InitReport ==
    /\ settings = DefaultSettings
    /\ now = 0
    /\ labeler = <<>>
    /\ bq_client = "Mock"
    /\ labels \in RetainedSets
    /\ pc = "idle"
    /\ all_labels = labels
    /\ fetched = <<>>
    /\ prior = <<>>
    /\ log = <<>>
    /\ op = "init" /\ arg = <<>> /\ ret = <<>> /\ raised = ""

\* example_multi_label_addresses() over the records its full run returned.
ExampleMultiLabelAddresses ==
    /\ Returns("example_multi_label_addresses", all_labels,
               Ok(example_multi_label_addresses(all_labels)))
    /\ UNCHANGED <<settings, now, labeler, bq_client, labels, pc, all_labels,
                   fetched, prior>>
    /\ UNCHANGED log

\* main(): generate_summary_report(pipeline.export_to_dataframe())
GenerateSummaryReport ==
    /\ Returns("generate_summary_report", export_to_dataframe(labels),
               generate_summary_report(export_to_dataframe(labels)))
    /\ UNCHANGED <<settings, now, labeler, bq_client, labels, pc, all_labels,
                   fetched, prior>>
    /\ UNCHANGED log

\* self.labels after a query returned result: the three methods read
\* self.labels and build a new list or table.
RetainedAfterQueryFiltered(retained, result) == result

RetainedAfterQuery(retained, result) == retained

\* A query of the retained set: r is its outcome. No fetch is made.
Queried(name, input, r) ==
    /\ Returns(name, input, r)
    /\ labels' = RetainedAfterQuery(labels, r.val)
    /\ UNCHANGED log

ExportToDataframe ==
    /\ Queried("export_to_dataframe", <<>>,
               Ok(export_to_dataframe(labels)))
    /\ UNCHANGED <<settings, now, labeler, bq_client, pc, all_labels, fetched,
                   prior>>

GetLabelsByType ==
    /\ \E label_type \in LabelTypes :
          Queried("get_labels_by_type", label_type,
                  Ok(get_labels_by_type(labels, label_type)))
    /\ UNCHANGED <<settings, now, labeler, bq_client, pc, all_labels, fetched,
                   prior>>

GetLabelsByAddress ==
    /\ \E address \in AddressesAsked :
          Queried("get_labels_by_address", address,
                  Ok(get_labels_by_address(labels, address)))
    /\ UNCHANGED <<settings, now, labeler, bq_client, pc, all_labels, fetched,
                   prior>>

\* What a LabelingPipeline object has: the two attributes __init__ assigns and
\* the methods of the class.
LabelingPipelineAttributes ==
    {"bq_client", "labels", "generate_whale_labels",
     "generate_nft_trader_labels", "generate_dex_user_labels",
     "generate_new_wallet_labels", "run_full_pipeline", "get_labels_by_type",
     "get_labels_by_address", "export_to_dataframe"}

\* The names a rule is registered or asked for under.
RuleNames == {"custom_example", "whale", "unknown"}

\* pipeline.add_custom_labeler(name, custom_labeler), as the usage text of
\* example_custom_labeler.py calls it: the attribute lookup raises
\* AttributeError, LabelingPipeline defining no such method.
AddCustomLabeler ==
    /\ \E name \in RuleNames :
          Returns("add_custom_labeler", name,
                  IF "add_custom_labeler" \in LabelingPipelineAttributes
                  THEN Ok(<<>>) ELSE Raise("AttributeError"))
    /\ UNCHANGED <<settings, now, labeler, bq_client, labels, pc, all_labels,
                   fetched, prior>>
    /\ UNCHANGED log

\* pipeline.run_specific_labeler(name), likewise.
RunSpecificLabeler ==
    /\ \E name \in RuleNames :
          Returns("run_specific_labeler", name,
                  IF "run_specific_labeler" \in LabelingPipelineAttributes
                  THEN Ok(<<>>) ELSE Raise("AttributeError"))
    /\ UNCHANGED <<settings, now, labeler, bq_client, labels, pc, all_labels,
                   fetched, prior>>
    /\ UNCHANGED log

NextReport ==
    \/ ExampleMultiLabelAddresses
    \/ GenerateSummaryReport
    \/ ExportToDataframe
    \/ GetLabelsByType
    \/ GetLabelsByAddress
    \/ AddCustomLabeler
    \/ RunSpecificLabeler

SpecReport == InitReport /\ [][NextReport]_vars

----------------------------------------------------------------------------
(* The full run, and a query made from another thread meanwhile *)

Next ==
    \/ StartRun
    \/ StepWhale
    \/ StepNFTTrader
    \/ StepDEXUser
    \/ StepNewWallet
    \/ Store
    \/ Interrupt
    \/ Tick

Spec == Init /\ [][Next]_vars

\* The addresses the other thread asks for: those of the rows of the runs.
AddressesQueried == {"0xab", "0xcd"}

\* pipeline.get_labels_by_address(address) in another thread, while a run is
\* under way or right after it returned: the comprehension reads self.labels
\* once, and the list it then iterates is never written again.
QueryFromThread ==
    /\ pc # "idle" \/ (op = "run_full_pipeline" /\ raised = "")
    /\ \E address \in AddressesQueried :
          Queried("get_labels_by_address", address,
                  Ok(get_labels_by_address(labels, address)))
    /\ UNCHANGED <<settings, now, labeler, bq_client, pc, all_labels, fetched,
                   prior>>

\* A pipeline whose client answers, under the default settings.
InitQuery ==
    /\ Init
    /\ settings = DefaultSettings
    /\ bq_client = "Mock"

\* Runs on one date, and the other thread's queries.
NextQuery ==
    \/ StartRun
    \/ StepWhale
    \/ StepNFTTrader
    \/ StepDEXUser
    \/ StepNewWallet
    \/ Store
    \/ Interrupt
    \/ QueryFromThread

SpecQuery == InitQuery /\ [][NextQuery]_vars

----------------------------------------------------------------------------
(* main.py: the entry point *)

\* LabelingPipeline(): BigQueryClient() reaches the service (credentials, the
\* dataset) and may raise; a client put in its place does not.
Constructions ==
    IF bq_client = "Mock" THEN {Ok("LabelingPipeline")}
    ELSE {Ok("LabelingPipeline"), Raise("DefaultCredentialsError")}

\* export_to_csv: the path written, or the error of makedirs/to_csv.
CsvOutcomes == {Ok("output/apollo_labels.csv"), Raise("OSError")}

\* The body of the try block of main(): what was logged last, and whether the
\* file was written.
main_try(pipeline, produced, csv) ==
    IF pipeline.exc # "" THEN Raise(pipeline.exc)
    ELSE IF produced = <<>>
    THEN Ok([logged |-> "No labels were generated", exported |-> FALSE])
    ELSE LET labels_df == export_to_dataframe(produced)
             summary == generate_summary_report(labels_df)
         IN  IF summary.exc # "" THEN Raise(summary.exc)
             ELSE IF csv.exc # "" THEN Raise(csv.exc)
             ELSE Ok([logged |-> "Pipeline completed successfully",
                      exported |-> TRUE])

\* except Exception as e: logger.error(...); raise
main_except_swallowed(r) ==
    IF r.exc = "" THEN r
    ELSE Ok([logged |-> "No labels were generated", exported |-> FALSE])

main_except(r) ==
    IF r.exc = "" THEN r
    ELSE [exc |-> r.exc,
          val |-> [logged |-> "Pipeline failed with error", exported |-> FALSE]]

InitMain ==
    /\ settings \in PipelineSettings
    /\ now = 0
    /\ labeler = <<>>
    /\ bq_client \in {"BigQueryClient", "Mock"}
    /\ pipelineIdle
    /\ op = "init" /\ arg = <<>> /\ ret = <<>> /\ raised = ""

\* main(): fetched keeps the generator calls of the run, if the pipeline was
\* constructed.
Main ==
    /\ op = "init"
    /\ \E pipeline \in Constructions : \E dfs \in RunFetches :
       \E csv \in CsvOutcomes :
          LET calls == IF pipeline.exc = "" THEN run_full_pipeline(dfs) ELSE <<>>
              produced == Outputs(calls)
          IN  /\ fetched' = calls
              /\ all_labels' = produced
              /\ labels' = IF pipeline.exc = ""
                           THEN StoreLabels(labels, produced) ELSE labels
              /\ Returns("main", [pipeline |-> pipeline, csv |-> csv],
                         main_except(main_try(pipeline, produced, csv)))
              /\ log' = Events(calls)
    /\ prior' = labels
    /\ UNCHANGED <<settings, now, labeler, bq_client, pc>>

NextMain ==
    \/ Main
    \/ TickBeforeRun

SpecMain == InitMain /\ [][NextMain]_vars

----------------------------------------------------------------------------
(* Properties of the rules, under SpecRules *)

LabelerRunOps ==
    {"WhaleLabeler.run", "NFTTraderLabeler.run", "DEXUserLabeler.run",
     "NewWalletLabeler.run"}

GeneratorOps ==
    {"generate_whale_labels", "generate_nft_trader_labels",
     "generate_dex_user_labels", "generate_new_wallet_labels"}

\* The last call produced records, one per fetched row.
Produced(names) ==
    /\ op \in names
    /\ arg.exc = ""
    /\ Len(ret) = Len(arg.val)
    /\ Len(ret) > 0

InUnit(c) == RLe(Zero, c) /\ RLe(c, One)

\* C2: BaseLabeler.run() never lets an exception reach its caller: when
\* generate_labels() raises (the query fails, or a row cannot be processed) it
\* returns the empty list, and when generate_labels() succeeds it returns
\* exactly the list generate_labels() built.
C2_RunNeverRaises ==
    op \in LabelerRunOps =>
        LET gen == GenerateLabels(labeler, arg)
        IN  /\ raised = ""
            /\ gen.exc # "" => ret = <<>>
            /\ gen.exc = "" => ret = gen.val

\* A run whose second row could not be processed, after a first row that was
\* converted: nothing raised, nothing returned.
C2_Witness ==
    /\ op = "WhaleLabeler.run"
    /\ arg.exc = ""
    /\ Len(arg.val) = 2
    /\ ~IsMalformed(arg.val[1])
    /\ IsMalformed(arg.val[2])
    /\ ret = <<>>
    /\ raised = ""

\* C5: every record produced by any rule (a labeler's run() or a pipeline
\* generator), for every row the data source returns and every configuration
\* that can be set, has 0 <= confidence <= 1.
C5_ConfidenceInUnitInterval ==
    op \in LabelerRunOps \cup GeneratorOps =>
        \A i \in 1..Len(ret) : InUnit(ret[i].confidence)

\* The minimum the whale rule of the last call was configured with.
WhaleMinimum ==
    IF op = "WhaleLabeler.run" THEN labeler.min_balance
    ELSE settings.min_eth_balance_whale

\* C6: whale boundaries, for WhaleLabeler and generate_whale_labels: a balance
\* equal to the configured minimum gives confidence 0.1, a balance of 10 times
\* the minimum gives 1.0, and every balance above 10 times the minimum gives 1.0.
C6_WhaleBoundaries ==
    Produced({"WhaleLabeler.run", "generate_whale_labels"}) =>
        \A i \in 1..Len(ret) :
            LET b == arg.val[i].eth_balance
                c == ret[i].confidence
            IN  /\ b = WhaleMinimum => c = Rat(1, 10)
                /\ b = 10 * WhaleMinimum => c = One
                /\ b > 10 * WhaleMinimum => c = One

\* The row's age in days and the window of the new-wallet rule of the last call.
NewWalletDaysOld(i) ==
    IF op = "NewWalletLabeler.run"
    THEN now - arg.val[i].first_transaction_date
    ELSE now - arg.val[i].first_transaction_time

NewWalletLookback ==
    IF op = "NewWalletLabeler.run" THEN labeler.lookback_days
    ELSE settings.lookback_days_new_wallet

\* C7: new-wallet boundaries, for NewWalletLabeler and
\* generate_new_wallet_labels: days_old = 0 gives 1.0, days_old = lookback_days
\* gives the floor 0.1, and for every days_old the confidence is
\* max(0.1, 1 - days_old/lookback_days) and lies between 0.1 and 1.0.
C7_NewWalletBoundaries ==
    Produced({"NewWalletLabeler.run", "generate_new_wallet_labels"}) =>
        \A i \in 1..Len(ret) :
            LET d == NewWalletDaysOld(i)
                L == NewWalletLookback
                c == ret[i].confidence
                raw == RSub(One, Rat(d, L))
            IN  /\ d = 0 => c = One
                /\ d = L => c = Rat(1, 10)
                /\ c = (IF RLt(raw, Rat(1, 10)) THEN Rat(1, 10) ELSE raw)
                /\ RLe(Rat(1, 10), c)
                /\ RLe(c, One)

\* min(1, n/d) and max(lo, x), written out for the statements below.
CapAtOne(x) == IF RLt(One, x) THEN One ELSE x
FloorAt(lo, x) == IF RLt(x, lo) THEN lo ELSE x

\* C8: every DEX-user record, from DEXUserLabeler or from
\* generate_dex_user_labels, has confidence
\* max(0.25, (min(1, unique_dex_contracts/5) + min(1, total_dex_interactions/50)) / 2),
\* so none is below 0.25.
C8_DEXUserFormula ==
    Produced({"DEXUserLabeler.run", "generate_dex_user_labels"}) =>
        \A i \in 1..Len(ret) :
            LET u == arg.val[i].unique_dex_contracts
                t == arg.val[i].total_dex_interactions
                c == ret[i].confidence
            IN  /\ c = FloorAt(Rat(1, 4),
                               RHalf(RAdd(CapAtOne(Rat(u, 5)), CapAtOne(Rat(t, 50)))))
                /\ RLe(Rat(1, 4), c)

\* C9: every NFT-trader record, from NFTTraderLabeler or from
\* generate_nft_trader_labels, has confidence
\* max(0.4, min(1, nft_ratio + min(0.2, total_interactions/100))), so none is
\* below 0.4.
C9_NFTTraderFormula ==
    Produced({"NFTTraderLabeler.run", "generate_nft_trader_labels"}) =>
        \A i \in 1..Len(ret) :
            LET r == arg.val[i].nft_ratio
                t == arg.val[i].total_interactions
                c == ret[i].confidence
                bonus == IF RLt(Rat(t, 100), Rat(1, 5)) THEN Rat(t, 100)
                         ELSE Rat(1, 5)
            IN  /\ c = FloorAt(Rat(2, 5), CapAtOne(RAdd(r, bonus)))
                /\ RLe(Rat(2, 5), c)



\* C18: supplying a lookback window <= 0 to the new-wallet rule or a ratio
\* threshold outside [0,1] to the NFT-trader rule, whether at construction or
\* through the setter, raises an explicit error to the caller; in every
\* reachable state a new-wallet rule holds lookback_days > 0 and an NFT-trader
\* rule holds 0 <= threshold <= 1.
C18_ValidatedConfiguration ==
    /\ labeler.class = "NewWalletLabeler" => labeler.lookback_days > 0
    /\ labeler.class = "NFTTraderLabeler" =>
          RLe(Zero, labeler.threshold) /\ RLe(labeler.threshold, One)
    /\ (op = "NewWalletLabeler.set_lookback_days" /\ arg <= 0) =>
          raised = "ValueError"
    /\ (op = "NFTTraderLabeler.set_threshold"
            /\ ~(RLe(Zero, arg) /\ RLe(arg, One))) =>
          raised = "ValueError"


\* C20: single-rule execution leaves the retained set untouched: calling any
\* one generator or a labeler's run() returns that rule's records (none when
\* the rule fails) and leaves pipeline.labels exactly as it was before the
\* call (prior), whether the rule succeeds or fails.
C20_SingleRuleLeavesRetained ==
    /\ op \in GeneratorOps \cup LabelerRunOps =>
          /\ labels = prior
          /\ raised = ""
    /\ op \in LabelerRunOps =>
          LET gen == GenerateLabels(labeler, arg)
          IN  ret = IF gen.exc = "" THEN gen.val ELSE <<>>
    /\ op \in GeneratorOps =>
          /\ arg.exc # "" => ret = <<>>
          /\ ret # <<>> =>
                /\ Len(ret) = Len(arg.val)
                /\ \A i \in 1..Len(ret) : ret[i].address = arg.val[i].address

\* A generator returned records of its own while the pipeline held the
\* records of an earlier run.
C20_Witness ==
    /\ op = "generate_nft_trader_labels"
    /\ labels # <<>>
    /\ ret # <<>>
    /\ ret # labels
    /\ labels = prior

\* A generator failed (the fetch raised, or a row could not be read) while the
\* pipeline held the records of an earlier run.
C20_WitnessFailure ==
    /\ op \in GeneratorOps
    /\ labels # <<>>
    /\ ret = <<>>
    /\ (arg.exc # "" \/ \E i \in 1..Len(arg.val) : IsMalformed(arg.val[i]))


\* C22: per-rule configuration: when a rule is constructed with an explicit
\* value for its minimum balance, ratio threshold or lookback window, the rule
\* uses exactly that value; the process-wide setting is used only when no
\* value is given.
C22_ExplicitValueUsed ==
    /\ op = "WhaleLabeler" =>
          labeler.min_balance =
              IF arg.given THEN arg.v ELSE settings.min_eth_balance_whale
    /\ op = "NFTTraderLabeler" =>
          labeler.threshold =
              IF arg.given THEN arg.v ELSE settings.nft_trader_threshold
    /\ op = "NewWalletLabeler" =>
          labeler.lookback_days =
              IF arg.given THEN arg.v ELSE settings.lookback_days_new_wallet


\* The first row of the fetched rows that cannot be read, 0 if there is none.
FirstMalformed(rows) ==
    IF \A i \in 1..Len(rows) : ~IsMalformed(rows[i]) THEN 0
    ELSE CHOOSE i \in 1..Len(rows) :
             IsMalformed(rows[i]) /\ \A j \in 1..(i - 1) : ~IsMalformed(rows[j])

\* C25: a rule's output is all-or-nothing: if processing of any fetched row
\* fails (malformed row, missing column) after earlier rows were already
\* converted, the rule returns an empty list, never the prefix of records built
\* before the failure; this holds for BaseLabeler.run() and for each pipeline
\* generator.
C25_AllOrNothing ==
    (op \in LabelerRunOps \cup GeneratorOps /\ arg.exc = ""
        /\ FirstMalformed(arg.val) > 0) =>
            /\ ret = <<>>
            /\ raised = ""

\* A generator whose first row was converted and whose second row had no
\* column to read.
C25_Witness ==
    /\ op = "generate_dex_user_labels"
    /\ arg.exc = ""
    /\ FirstMalformed(arg.val) = 2
    /\ ret = <<>>


\* The category of the rule an operation runs.
CategoryOf(name) ==
    CASE name \in {"WhaleLabeler.run", "generate_whale_labels"} -> "whale"
      [] name \in {"NFTTraderLabeler.run", "generate_nft_trader_labels"} -> "nft_trader"
      [] name \in {"DEXUserLabeler.run", "generate_dex_user_labels"} -> "dex_user"
      [] name \in {"NewWalletLabeler.run", "generate_new_wallet_labels"} -> "new_wallet"

\* C26: when a rule's data-source call succeeds with n well-formed rows, the
\* rule returns exactly n records, the i-th record built from the i-th row
\* (same address, created_at and updated_at as the row), all carrying the
\* rule's own category; rows are neither dropped, duplicated nor reordered.
C26_OneRecordPerRow ==
    (op \in LabelerRunOps \cup GeneratorOps /\ arg.exc = ""
        /\ FirstMalformed(arg.val) = 0) =>
            /\ Len(ret) = Len(arg.val)
            /\ \A i \in 1..Len(ret) :
                  /\ ret[i].address = arg.val[i].address
                  /\ ret[i].created_at = arg.val[i].created_at
                  /\ ret[i].updated_at = arg.val[i].updated_at
                  /\ ret[i].label = CategoryOf(op)


----------------------------------------------------------------------------
(* Properties of the full run, under Spec *)

RECURSIVE ConcatOut(_)
\* The outputs of the generator calls of a run, in call order.
ConcatOut(calls) ==
    IF calls = <<>> THEN <<>>
    ELSE ConcatOut(SubSeq(calls, 1, Len(calls) - 1)) \o calls[Len(calls)].out

\* The rule's data-source call failed, or one of its rows cannot be processed.
RuleFailed(rule, df) ==
    \/ df.exc # ""
    \/ \E i \in 1..Len(df.val) : IsMalformed(df.val[i])
    \/ /\ rule = "new_wallet"
       /\ settings.lookback_days_new_wallet = 0
       /\ df.val # <<>>
    \/ /\ rule = "whale"
       /\ settings.min_eth_balance_whale = 0
       /\ df.val # <<>>

\* One record of the rule's category per fetched row, in row order.
RecordsOf(rule, df, out) ==
    /\ Len(out) = Len(df.val)
    /\ \A i \in 1..Len(out) :
          out[i].address = df.val[i].address /\ out[i].label = rule

\* A call of run_full_pipeline has returned or raised, and nothing ran since.
RunEnded == pc = "idle" /\ op = "run_full_pipeline"

RunReturned == RunEnded /\ raised = ""

\* C1: failure isolation in a full run: whichever of the four rules fail (their
\* data-source call raises, or a row cannot be processed), run_full_pipeline
\* raises no exception, each failing rule contributes zero records, and the
\* list returned is exactly the records of the rules that did not fail.
C1_FailureIsolation ==
    (RunEnded /\ raised # "KeyboardInterrupt") =>
        /\ raised = ""
        /\ Len(arg) = Len(Rules)
        /\ ret = ConcatOut(arg)
        /\ \A k \in 1..Len(arg) :
              IF RuleFailed(Rules[k], arg[k].df)
              THEN arg[k].out = <<>>
              ELSE RecordsOf(Rules[k], arg[k].df, arg[k].out)

\* A run in which one rule's fetch raised, another rule met a malformed row,
\* and a third produced records, which the run returned.
C1_Witness ==
    /\ RunReturned
    /\ \E i, j, k \in 1..Len(arg) :
          /\ arg[i].df.exc # ""
          /\ arg[j].df.exc = ""
          /\ \E n \in 1..Len(arg[j].df.val) : IsMalformed(arg[j].df.val[n])
          /\ ~RuleFailed(Rules[k], arg[k].df)
          /\ arg[k].out # <<>>
    /\ ret # <<>>

\* C3: after any sequence of full runs, pipeline.labels is exactly the
\* concatenated outputs of the rules in the most recent full run: no record of
\* an earlier run survives, and it is empty exactly when no rule produced
\* output in that run.
C3_RetainedIsLastRun ==
    RunReturned =>
        /\ labels = ConcatOut(arg)
        /\ labels = <<>> <=> \A k \in 1..Len(arg) : arg[k].out = <<>>

\* A run that produced nothing, after a run that had left records.
C3_Witness ==
    /\ RunReturned
    /\ prior # <<>>
    /\ labels = <<>>
    /\ \E k \in 1..Len(arg) : arg[k].df.exc = "" /\ arg[k].df.val # <<>>

C24_SnapshotVisibility ==
    op = "get_labels_by_address" =>
        \/ ret = get_labels_by_address(prior, arg)
        \/ /\ pc = "idle"
           /\ fetched # <<>>
           /\ ret = get_labels_by_address(ConcatOut(fetched), arg)

\* A query made after two rules of a run had produced records for the address
\* asked for, the pipeline holding nothing from before: it sees nothing.
C24_Witness ==
    /\ op = "get_labels_by_address"
    /\ pc = "dex_user"
    /\ arg = "0xab"
    /\ Len(get_labels_by_address(all_labels, arg)) = 2
    /\ prior = <<>>
    /\ ret = <<>>

\* A query made right after a run returned sees the records of that run.
C24_WitnessAfter ==
    /\ op = "get_labels_by_address"
    /\ pc = "idle"
    /\ ret # <<>>
    /\ ret # get_labels_by_address(prior, arg)


----------------------------------------------------------------------------
(* Properties of the reports, under SpecReport *)

\* The addresses whose records carry at least two distinct categories.
MultiCategory(records) ==
    {a \in Values(Column(records, "address")) :
        Cardinality({records[i].label :
                        i \in {j \in 1..Len(records) : records[j].address = a}}) >= 2}

\* C10: multi-category detection: over any retained set, an address is
\* reported as multi-category if and only if its records carry at least two
\* distinct categories; an address with several records of one category is
\* neither listed by the multi-label listing nor counted by the summary's
\* multi-label count.
C10_MultiCategoryDetection ==
    /\ op = "example_multi_label_addresses" =>
          /\ {e.address : e \in ret.listing} = MultiCategory(arg)
          /\ ret.found = Cardinality(MultiCategory(arg))
    /\ (op = "generate_summary_report" /\ arg.rows # <<>>) =>
          /\ {e.address : e \in ret.multi_label_listing} = MultiCategory(arg.rows)
          /\ ret.multi_label_count = Cardinality(MultiCategory(arg.rows))


\* The addresses, letter case ignored, whose records carry at least two
\* distinct categories.
MultiCategoryFolded(records) ==
    {a \in {Lower(records[i].address) : i \in 1..Len(records)} :
        Cardinality({records[i].label :
                        i \in {j \in 1..Len(records) :
                                  Lower(records[j].address) = a}}) >= 2}

\* C11: addresses are compared case-insensitively for grouping: records whose
\* addresses differ only in letter case count as one address when the records
\* are grouped for multi-category detection (the multi-label listing) and when
\* the summary counts the distinct addresses.
C11_CaseInsensitiveGrouping ==
    /\ op = "example_multi_label_addresses" =>
          /\ {Lower(e.address) : e \in ret.listing} = MultiCategoryFolded(arg)
          /\ ret.found = Cardinality(MultiCategoryFolded(arg))
    /\ (op = "generate_summary_report" /\ Len(labels) > 0) =>
          ret.unique_addresses =
              Cardinality({Lower(labels[i].address) : i \in 1..Len(labels)})


\* The positions of the retained records that satisfy a test, as the set idx:
\* the k-th of them in increasing order.
Nth(idx, k) == CHOOSE i \in idx : Cardinality({j \in idx : j < i}) = k - 1

\* C14: get_labels_by_type(name) returns exactly the retained records whose
\* label equals name by exact string match, in the same relative order as in
\* the retained set, and an empty list when no record matches.
C14_FilterByType ==
    op = "get_labels_by_type" =>
        LET idx == {i \in 1..Len(labels) : labels[i].label = arg}
        IN  /\ raised = ""
            /\ Len(ret) = Cardinality(idx)
            /\ \A k \in 1..Len(ret) : ret[k] = labels[Nth(idx, k)]

\* Two whale records picked out of a retained set that also holds another
\* category, the second whale address before the first in letter order.
C14_Witness ==
    /\ op = "get_labels_by_type"
    /\ arg = "whale"
    /\ Len(ret) = 2
    /\ Len(labels) = 3
    /\ ret[1].address = "0xcd"
    /\ ret[2].address = "0xab"

\* What get_labels_by_type gives for a name that differs from a category in
\* letter case only, or that no rule produces: nothing.
C14_WitnessNoMatch ==
    /\ op = "get_labels_by_type"
    /\ arg = "Whale"
    /\ ret = <<>>
    /\ \E i \in 1..Len(labels) : labels[i].label = "whale"

\* C15: get_labels_by_address(address) returns exactly the retained records
\* whose address equals the argument ignoring letter case, in retained-set
\* order, including all records of that address across categories.
C15_FilterByAddress ==
    op = "get_labels_by_address" =>
        LET idx == {i \in 1..Len(labels) : Lower(labels[i].address) = Lower(arg)}
        IN  /\ raised = ""
            /\ Len(ret) = Cardinality(idx)
            /\ \A k \in 1..Len(ret) : ret[k] = labels[Nth(idx, k)]

\* An address asked for in capitals, found under both spellings and in two
\* categories, next to a record of another address.
C15_Witness ==
    /\ op = "get_labels_by_address"
    /\ arg = "0xAB"
    /\ Len(ret) = 2
    /\ Len(labels) = 3
    /\ ret[1].address = "0xab"
    /\ ret[2].address = "0xAB"
    /\ ret[1].label # ret[2].label

C17_ExportColumns ==
    op = "export_to_dataframe" =>
        /\ ret.columns = <<"address", "label", "confidence", "created_at",
                           "updated_at", "source_rule">>
        /\ Len(ret.rows) = Len(labels)
        /\ \A i \in 1..Len(ret.rows) : \A j \in 1..Len(ret.columns) :
              ret.rows[i][ret.columns[j]] = labels[i][ret.columns[j]]


\* C21: a rule can be registered with the pipeline under a name at runtime and
\* then run by that name (neither call fails for want of the operation);
\* requesting a single rule by a name that is not registered fails with an
\* explicit 'unknown rule' error to the caller, and leaves the retained set
\* unchanged.
C21_RegistryOpen ==
    /\ op = "add_custom_labeler" => raised = ""
    /\ op = "run_specific_labeler" =>
          /\ raised \in {"", "UnknownRule", "KeyError", "ValueError"}
          /\ arg = "unknown" => raised # ""
    /\ op \in {"add_custom_labeler", "run_specific_labeler"} =>
          labels = all_labels


QueryOps == {"get_labels_by_type", "get_labels_by_address", "export_to_dataframe"}

\* C23: the query operations get_labels_by_type, get_labels_by_address and
\* export_to_dataframe are read-only: after any of them, the retained set
\* holds the same records in the same order as before, and none of them calls
\* the data source (no fetch is recorded, the client is unchanged).
C23_QueriesReadOnly ==
    [][op' \in QueryOps =>
          /\ labels' = labels
          /\ fetched' = fetched
          /\ bq_client' = bq_client]_vars

\* A query returned some but not all of the records of a retained set.
C23_Witness ==
    /\ op = "get_labels_by_type"
    /\ ret # <<>>
    /\ Len(ret) < Len(labels)
    /\ labels = all_labels
    /\ fetched = <<>>


----------------------------------------------------------------------------
(* Properties of repeated runs, under SpecRerun *)

\* What a record says, without its timestamps.
Content(l) == <<l.address, l.label, l.confidence, l.source_rule>>

Contents(records) == {Content(records[i]) : i \in 1..Len(records)}

\* The new-wallet rows behind the new_wallet records of a run, in order.
NewWalletRowsOf(calls) == calls[4].df.val

\* The position among the new_wallet records of the i-th record of a run.
NewWalletIndex(calls, i) == i - (Len(Outputs(calls)) - Len(calls[4].out))

----------------------------------------------------------------------------
(* Properties of the order of the rules, under SpecOrder *)

RECURSIVE BagOf(_)
\* The multiset of the elements of a list.
BagOf(xs) ==
    IF xs = <<>> THEN EmptyBag
    ELSE BagOf(SubSeq(xs, 1, Len(xs) - 1)) (+) SetToBag({xs[Len(xs)]})

\* The position in Rules of a rule.
RuleIndex(rule) == CHOOSE k \in 1..Len(Rules) : Rules[k] = rule

----------------------------------------------------------------------------
(* Properties of the entry point, under SpecMain *)

\* How main() ended.
EndedNoLabels ==
    /\ raised = ""
    /\ ret.logged = "No labels were generated"
    /\ ~ret.exported

EndedExported ==
    /\ raised = ""
    /\ ret.logged = "Pipeline completed successfully"
    /\ ret.exported

EndedFailed ==
    /\ raised # ""
    /\ ret.logged = "Pipeline failed with error"
    /\ ~ret.exported

\* C19: the entry point distinguishes three outcomes of a run: a run that
\* produces zero labels ends normally with an explicit 'no labels' notice and
\* no export; a run that produces labels ends normally with an export; a run
\* that failed to execute (the pipeline could not be constructed, or the
\* export raised) ends with the error re-raised to the caller. A zero-label
\* outcome is never reported as a failure and a failure is never reported as a
\* zero-label success.
C19_ThreeOutcomes ==
    op = "main" =>
        LET ran == arg.pipeline.exc = ""
            produced == Outputs(fetched)
        IN  /\ (ran /\ produced = <<>>) => EndedNoLabels
            /\ (ran /\ produced # <<>> /\ arg.csv.exc = "") => EndedExported
            /\ ~ran => (EndedFailed /\ raised = arg.pipeline.exc)
            /\ (ran /\ produced # <<>> /\ arg.csv.exc # "") =>
                  (EndedFailed /\ raised = arg.csv.exc)
            /\ EndedNoLabels \/ EndedExported \/ EndedFailed

\* A run in which a rule's fetch failed and no rule produced a record: the
\* notice, no export, no error (not even when the export would have failed).
C19_Witness ==
    /\ op = "main"
    /\ bq_client = "Mock"
    /\ \E k \in 1..Len(fetched) : fetched[k].df.exc # ""
    /\ labels = <<>>
    /\ arg.csv.exc # ""
    /\ EndedNoLabels

\* The pipeline could not be constructed.
C19_WitnessFailed ==
    /\ op = "main"
    /\ arg.pipeline.exc # ""
    /\ fetched = <<>>
    /\ EndedFailed

\* Labels were produced and exported, one rule having failed.
C19_WitnessExported ==
    /\ op = "main"
    /\ labels # <<>>
    /\ \E k \in 1..Len(fetched) : fetched[k].df.exc # ""
    /\ EndedExported

\* Labels were produced and the export raised.
C19_WitnessExportFailed ==
    /\ op = "main"
    /\ labels # <<>>
    /\ raised = "OSError"
    /\ EndedFailed


----------------------------------------------------------------------------
(* Properties of the log of a rule execution, under SpecRules *)

\* The labeler's data-source call failed, or one of its rows cannot be
\* processed.
LabelerFailed(self, df) ==
    \/ df.exc # ""
    \/ \E i \in 1..Len(df.val) : IsMalformed(df.val[i])
    \/ /\ self.class = "NewWalletLabeler"
       /\ self.lookback_days = 0
       /\ df.val # <<>>
    \/ /\ self.class = "WhaleLabeler"
       /\ self.min_balance = 0
       /\ df.val # <<>>

\* The rule execution that returned last had failed.
ExecutionFailed ==
    IF op \in LabelerRunOps THEN LabelerFailed(labeler, arg)
    ELSE RuleFailed(CategoryOf(op), arg)

\* C27: log-event ordering per rule execution: every execution of a rule emits
\* exactly one start event followed by exactly one of a completion event
\* (carrying the number of records returned) or a failure event, never both
\* and never neither; the completion event is emitted only when the rule
\* returns its records and the failure event only when it returns an empty
\* list because of an error.
C27_LogEventOrdering ==
    op \in LabelerRunOps \cup GeneratorOps =>
        /\ Len(log) = 2
        /\ log[1].event = "start"
        /\ log[2].event \in {"complete", "error"}
        /\ log[2].event = "complete" =>
              /\ ~ExecutionFailed
              /\ log[2].count = Len(ret)
        /\ log[2].event = "error" =>
              /\ ExecutionFailed
              /\ ret = <<>>

\* A rule whose second row could not be read: start, then the failure event.
C27_Witness ==
    /\ op = "NFTTraderLabeler.run"
    /\ arg.exc = ""
    /\ FirstMalformed(arg.val) = 2
    /\ log = <<[event |-> "start"], [event |-> "error", error |-> "KeyError"]>>
    /\ ret = <<>>

\* A rule that found no rows: start, then completion with a count of 0.
C27_WitnessNoRows ==
    /\ op = "generate_dex_user_labels"
    /\ arg = [exc |-> "", val |-> <<>>]
    /\ log = <<[event |-> "start"], [event |-> "complete", count |-> 0]>>
    /\ ret = <<>>


----------------------------------------------------------------------------
(* The labeler classes against the pipeline's generators, under SpecRules *)

\* The labeler holds the value the generator of its category reads from the
\* settings.
SameConfiguration ==
    CASE labeler.class = "WhaleLabeler" ->
            labeler.min_balance = settings.min_eth_balance_whale
      [] labeler.class = "NFTTraderLabeler" ->
            labeler.threshold = settings.nft_trader_threshold
      [] labeler.class = "NewWalletLabeler" ->
            labeler.lookback_days = settings.lookback_days_new_wallet
      [] OTHER -> TRUE

\* The rows of a labeler's query as the pipeline's client returns them (the
\* new-wallet rows carry first_transaction_time for first_transaction_date).
AsPipelineRows(category, rows) ==
    IF category = "new_wallet"
    THEN [i \in 1..Len(rows) |-> PipelineNewWalletRow(rows[i])]
    ELSE rows

\* C28: the pipeline's built-in generators and the labeler classes are
\* equivalent scorers: for every candidate row and the same configuration, the
\* generator of a category produces a record with the same category,
\* confidence and source_rule as the labeler class of that category produces
\* for that row.
C28_EquivalentScorers ==
    (op \in LabelerRunOps /\ ret # <<>> /\ SameConfiguration) =>
        LET out == Generate(CategoryOf(op),
                            Ok(AsPipelineRows(CategoryOf(op), arg.val))).val
        IN  /\ Len(out) = Len(ret)
            /\ \A i \in 1..Len(ret) :
                  /\ out[i].label = ret[i].label
                  /\ out[i].confidence = ret[i].confidence
                  /\ out[i].source_rule = ret[i].source_rule


\* C29: with the shipped BigQueryClient as data source, each generator fetches
\* its rows through an operation that BigQueryClient provides: the fetch gives
\* the data source's answer (its rows, or its own failure when unreachable),
\* never a missing attribute, so that a reachable data source's n rows reach
\* the generator.
C29_ShippedClientFetches ==
    (bq_client = "BigQueryClient" /\ op \in GeneratorOps) =>
        arg.exc # "AttributeError"


----------------------------------------------------------------------------
(* Properties of the setters across a sequence of calls, under SpecRules *)

SetterOps ==
    {"WhaleLabeler.set_balance_threshold", "NFTTraderLabeler.set_threshold",
     "NewWalletLabeler.set_lookback_days"}

ConstructorOps ==
    {"WhaleLabeler", "NFTTraderLabeler", "DEXUserLabeler", "NewWalletLabeler"}

\* The value a setter of the object's class configures.
ConfiguredValue(self) ==
    CASE self.class = "WhaleLabeler" -> self.min_balance
      [] self.class = "NFTTraderLabeler" -> self.threshold
      [] self.class = "NewWalletLabeler" -> self.lookback_days
      [] OTHER -> self.min_interactions

\* min(1.0, eth_balance / (value * 10))
WhaleConfidenceWith(value, eth_balance) ==
    LET q == Rat(eth_balance, value * 10)
    IN  IF RLt(q, One) THEN q ELSE One

\* max(0.1, 1.0 - days_old / value)
NewWalletConfidenceWith(value, days_old) ==
    LET q == RSub(One, Rat(days_old, value))
    IN  IF RLt(q, Rat(1, 10)) THEN Rat(1, 10) ELSE q

\* One call, seen from the state it leaves.
C30_Call ==
    /\ (op' \in SetterOps /\ raised' # "") => labeler' = labeler
    /\ (op' \in SetterOps /\ raised' = "") =>
          /\ ConfiguredValue(labeler') = arg'
          /\ labels' = labels
    /\ labeler' # labeler => op' \in SetterOps \cup ConstructorOps
    /\ op' = "WhaleLabeler.run" =>
          \A i \in 1..Len(ret') :
             /\ ret'[i].source_rule.value = RInt(ConfiguredValue(labeler'))
             /\ ret'[i].confidence =
                   WhaleConfidenceWith(ConfiguredValue(labeler'),
                                       arg'.val[i].eth_balance)
    /\ op' = "NFTTraderLabeler.run" =>
          \A i \in 1..Len(ret') :
             ret'[i].source_rule.value = ConfiguredValue(labeler')
    /\ op' = "NewWalletLabeler.run" =>
          \A i \in 1..Len(ret') :
             /\ ret'[i].source_rule.value = RInt(ConfiguredValue(labeler'))
             /\ ret'[i].confidence =
                   NewWalletConfidenceWith(
                       ConfiguredValue(labeler'),
                       now' - arg'.val[i].first_transaction_date)

\* C30: a rejected NFTTraderLabeler.set_threshold or
\* NewWalletLabeler.set_lookback_days call leaves the rule's configured value
\* unchanged; an accepted setter call (WhaleLabeler.set_balance_threshold
\* included) configures its argument, which stays the configured value until
\* the next accepted setter call or a new object, and the records of every
\* later generate_labels use the configured value in both the confidence
\* formula and the source_rule text; records returned earlier are not altered.
C30_SetterSequences == [][C30_Call]_vars

\* A whale run with records whose configured value 1000 differs from the
\* settings' and from every constructor argument: set_balance_threshold(1000)
\* was accepted before.
C30_Witness ==
    /\ op = "WhaleLabeler.run"
    /\ ret # <<>>
    /\ settings.min_eth_balance_whale = 2
    /\ labeler.min_balance = 1000
    /\ ret[1].source_rule.value = RInt(1000)

\* A rejected setter call.
C30_WitnessRejected ==
    /\ op \in {"NFTTraderLabeler.set_threshold",
               "NewWalletLabeler.set_lookback_days"}
    /\ raised = "ValueError"

============================================================================
